---- MODULE Spec2Model ----
(***************************************************************************)
(* django_fabdeploy: the release log (ReleaseLog), the wheel repository    *)
(* cache derived from it (PkgRepository / PkgSpecList), the planner        *)
(* (VirtualenvConf.get_pkgs_to_install), the deployment task               *)
(* (LocalConf.task_deploy) and the wheel intake (LocalConf.task_add_wheel),*)
(* modelled from src/src/django_fabdeploy.py.                              *)
(*                                                                         *)
(* Text is modelled at the granularity of tokens: a line of the release    *)
(* log is the sequence of the tokens it is formatted from, the separators  *)
(* " " and "==" being tokens of their own, so that formatting a line and   *)
(* splitting it again are two different computations.  Version strings     *)
(* and wheel file names are atomic tokens; what the libraries compute from *)
(* them (distutils' LooseVersion, pip's Wheel) is tabulated for the        *)
(* bounded set of names the model uses.                                    *)
(***************************************************************************)
EXTENDS Integers, Sequences, FiniteSets, TLC

(***************************************************************************)
(* Bounds of the model.                                                    *)
(***************************************************************************)
\* lines of the release log file a ReleaseLog is constructed on
MaxInitLines == 2
\* lines the release log file may grow to by ReleaseLog operations
MaxLines == 4
\* virtualenvs configured in LocalConf.all_vpys
MaxTargets == 3
\* paths handed to task_add_wheel, over all its calls
MaxPaths == 3

(***************************************************************************)
(* Tokens.                                                                 *)
(***************************************************************************)
SP == " "
EQ == "=="
\* datetime.datetime.now().isoformat(): one token without blanks
Stamp == "2017-03-01T12:00:00"

None == <<>>
Some(x) == <<x>>

Pkgs == {"a", "b"}
VersionStrings == {"1.0", "1.5", "1.10", "2.0"}
WheelA10_py3 == "a-1.0-py3-none-any.whl"
WheelA10_cp38 == "a-1.0-cp38-cp38-linux_x86_64.whl"
WheelA15_py3 == "a-1.5-py3-none-any.whl"
WheelA110_py23 == "a-1.10-py2.py3-none-any.whl"
WheelA20_py3 == "a-2.0-py3-none-any.whl"
WheelB10_cp38 == "b-1.0-cp38-cp38-linux_x86_64.whl"
WheelB10_cp310 == "b-1.0-cp310-cp310-linux_x86_64.whl"
WheelA10_py3_linux == "a-1.0-py3-none-linux_x86_64.whl"
WheelA10_cp38_win == "a-1.0-cp38-cp38-win_amd64.whl"
WheelMyPkg10 == "my_pkg-1.0-py3-none-any.whl"
WheelMyPkg20 == "my_pkg-2.0-py3-none-any.whl"
WheelFiles ==
    {WheelA10_py3, WheelA10_cp38, WheelA15_py3, WheelA110_py23, WheelA20_py3,
     WheelB10_cp38, WheelB10_cp310, WheelA10_py3_linux, WheelA10_cp38_win,
     WheelMyPkg10, WheelMyPkg20}

(***************************************************************************)
(* Sequences helpers (Python list / str primitives on token sequences).    *)
(***************************************************************************)
Range(s) == {s[i] : i \in DOMAIN s}

Min(S) == CHOOSE x \in S : \A y \in S : x <= y

Max(S) == CHOOSE x \in S : \A y \in S : y <= x

\* [F(x) for x in s]
RECURSIVE MapSeq(_, _)
MapSeq(F(_), s) == IF s = <<>> THEN <<>> ELSE <<F(Head(s))>> \o MapSeq(F, Tail(s))

\* range(1, n + 1)
RECURSIVE Indices(_)
Indices(n) == IF n = 0 THEN <<>> ELSE Append(Indices(n - 1), n)

\* str.split(sep, maxsplit): at most maxsplit cuts, empty parts kept
RECURSIVE Split(_, _, _)
Split(s, sep, maxsplit) ==
    IF maxsplit = 0 \/ sep \notin Range(s)
    THEN <<s>>
    ELSE LET i == Min({j \in DOMAIN s : s[j] = sep})
         IN  <<SubSeq(s, 1, i - 1)>>
             \o Split(SubSeq(s, i + 1, Len(s)), sep, maxsplit - 1)

\* str.strip(): leading and trailing blanks removed
RECURSIVE Strip(_)
Strip(s) ==
    IF s = <<>> THEN s
    ELSE IF Head(s) = SP THEN Strip(Tail(s))
    ELSE IF s[Len(s)] = SP THEN Strip(SubSeq(s, 1, Len(s) - 1))
    ELSE s

\* the text of a field cut out of a line: the fields of the lines in the
\* model hold one token at most
Text(part) == IF part = <<>> THEN "" ELSE part[1]

(***************************************************************************)
(* distutils.version.LooseVersion: the component list of a version string, *)
(* compared as Python compares lists.                                      *)
(***************************************************************************)
LooseVersion(version) ==
    CASE version = "1.0" -> <<1, 0>>
      [] version = "1.5" -> <<1, 5>>
      [] version = "1.10" -> <<1, 10>>
      [] version = "2.0" -> <<2, 0>>
      [] OTHER -> <<>>

RECURSIVE VersionLess(_, _)
VersionLess(v, w) ==
    IF v = <<>> THEN w # <<>>
    ELSE IF w = <<>> THEN FALSE
    ELSE IF Head(v) # Head(w) THEN Head(v) < Head(w)
    ELSE VersionLess(Tail(v), Tail(w))

(***************************************************************************)
(* get_platform_tags: pip's Wheel(name).pyversions, the python tags of the *)
(* file name split at '.'; a name pip does not accept as a wheel file name *)
(* raises InvalidWheelFilename.                                            *)
(***************************************************************************)
IsWheelFilename(wheel) == wheel \in WheelFiles

get_platform_tags(wheel) ==
    CASE wheel = WheelA10_py3 -> <<"py3">>
      [] wheel = WheelA10_cp38 -> <<"cp38">>
      [] wheel = WheelA15_py3 -> <<"py3">>
      [] wheel = WheelA110_py23 -> <<"py2", "py3">>
      [] wheel = WheelA20_py3 -> <<"py3">>
      [] wheel = WheelB10_cp38 -> <<"cp38">>
      [] wheel = WheelB10_cp310 -> <<"cp310">>
      [] wheel = WheelA10_py3_linux -> <<"py3">>
      [] wheel = WheelA10_cp38_win -> <<"cp38">>
      [] wheel = WheelMyPkg10 -> <<"py3">>
      [] wheel = WheelMyPkg20 -> <<"py3">>
      [] OTHER -> <<>>

(***************************************************************************)
(* PkgSpecList: a package in a certain release with matching wheels.       *)
(***************************************************************************)
RECURSIVE TagWheels(_)
TagWheels(wheels) ==
    IF wheels = <<>> THEN <<>>
    ELSE <<(<<get_platform_tags(Head(wheels)), Head(wheels)>>)>> \o TagWheels(Tail(wheels))

PkgSpecList(pkg, version, wheels) ==
    [pkg |-> pkg, version |-> LooseVersion(version), wheels |-> TagWheels(wheels)]

PkgSpecList_add_wheel(self, wheel) ==
    [self EXCEPT !.wheels = Append(@, <<get_platform_tags(wheel), wheel>>)]

(***************************************************************************)
(* PkgRepository.add_wheel: the merge of one release into the repository.  *)
(* The repository is a function from the package names it holds; the      *)
(* result carries the repository, the value returned and what was raised.  *)
(***************************************************************************)
EmptyRepository == [p \in {} |-> None]

RepoSet(repo, pkg, entry) ==
    [p \in DOMAIN repo \cup {pkg} |-> IF p = pkg THEN entry ELSE repo[p]]

add_wheel_regress(self, pkg, version, wheel) ==
    IF pkg \notin DOMAIN self \/ LooseVersion(version) # self[pkg].version
    THEN IF IsWheelFilename(wheel)
         THEN [repo |-> RepoSet(self, pkg, PkgSpecList(pkg, version, <<wheel>>)),
               added |-> TRUE, raised |-> ""]
         ELSE [repo |-> self, added |-> FALSE, raised |-> "InvalidWheelFilename"]
    ELSE [repo |-> RepoSet(self, pkg, PkgSpecList_add_wheel(self[pkg], wheel)),
          added |-> TRUE, raised |-> ""]

add_wheel_replace_equal(self, pkg, version, wheel) ==
    IF pkg \notin DOMAIN self \/ ~VersionLess(LooseVersion(version), self[pkg].version)
    THEN [repo |-> RepoSet(self, pkg, PkgSpecList(pkg, version, <<wheel>>)),
          added |-> TRUE, raised |-> ""]
    ELSE [repo |-> self, added |-> FALSE, raised |-> ""]

add_wheel(self, pkg, version, wheel) ==
    IF pkg \notin DOMAIN self \/ VersionLess(self[pkg].version, LooseVersion(version))
    THEN IF IsWheelFilename(wheel)
         THEN [repo |-> RepoSet(self, pkg, PkgSpecList(pkg, version, <<wheel>>)),
               added |-> TRUE, raised |-> ""]
         ELSE [repo |-> self, added |-> FALSE, raised |-> "InvalidWheelFilename"]
    ELSE IF LooseVersion(version) = self[pkg].version
    THEN IF IsWheelFilename(wheel)
         THEN [repo |-> RepoSet(self, pkg, PkgSpecList_add_wheel(self[pkg], wheel)),
               added |-> TRUE, raised |-> ""]
         ELSE [repo |-> self, added |-> FALSE, raised |-> "InvalidWheelFilename"]
    ELSE [repo |-> self, added |-> FALSE, raised |-> ""]

(***************************************************************************)
(* The lines of the release log.                                           *)
(***************************************************************************)
\* unicode(vpy) = "%s:%s" % (self.host, self.vpy_path)
VpyName(hostname, vpy_path) == <<hostname, ":", vpy_path>>

release_line(pkg, version, wheel) ==
    <<"release:", SP, pkg, EQ, version, SP, wheel, SP, "at", SP, Stamp>>

install_line(vpyname, wheel) ==
    <<"install:", SP>> \o vpyname \o <<":", SP, wheel, SP, "at", SP, Stamp>>

\* "%s: %s: %s\n" % (tag, vpy, msg)
_error_message(tag, vpyname, msg) ==
    <<tag, ":", SP>> \o vpyname \o <<":", SP>> \o msg

(***************************************************************************)
(* ReleaseLog._read_entries: the repository replayed from the file.        *)
(***************************************************************************)
read_line(acc, l) ==
    IF acc.raised # "" THEN acc
    ELSE IF l # <<>> /\ l[1] = "release:"
    THEN LET fields == Split(Strip(l), SP, 3)
         IN  IF Len(fields) # 4
             THEN [acc EXCEPT !.raised = "ValueError"]
             ELSE LET spec == Split(fields[2], EQ, Len(fields[2]))
                  IN  IF Len(spec) # 2
                      THEN [acc EXCEPT !.raised = "ValueError"]
                      ELSE LET r == add_wheel(acc.repo, Text(spec[1]), Text(spec[2]),
                                              Text(fields[3]))
                           IN  [repo |-> r.repo, raised |-> r.raised]
    ELSE acc

RECURSIVE read_lines(_, _)
read_lines(acc, lines) ==
    IF lines = <<>> THEN acc ELSE read_lines(read_line(acc, Head(lines)), Tail(lines))

_read_entries(lines) == read_lines([repo |-> EmptyRepository, raised |-> ""], lines)

(***************************************************************************)
(* State.                                                                  *)
(***************************************************************************)
VARIABLES
    file,         \* the release log file at ReleaseLog.path: a sequence of lines
    latest_pkg,   \* ReleaseLog.latest_pkg: the PkgRepository
    log_state,    \* "unloaded" | "loaded" | the exception __init__ raised
    lastCall,     \* the last ReleaseLog operation called, with its arguments
    all_vpys,     \* LocalConf.all_vpys: the configured virtualenvs
    reload_once,  \* HostConf.reload_once of each host
    pc,           \* task_deploy: the statement the task is at
    vpys,         \* task_deploy: the selected virtualenvs (indices of all_vpys)
    idx,          \* task_deploy: position of the outer loop in vpys
    to_install,   \* task_deploy: the wheels to install on the current virtualenv
    wi,           \* task_deploy: position of the wheel loop in to_install
    pj,           \* task_deploy: position of the project loop in vpy.projects
    updated_vpys, \* task_deploy: the virtualenvs confirmed for update
    hosts_left,   \* task_deploy: hosts the reload loop has still to visit
    cmds,         \* what the task ran on its collaborators, in order
    task,         \* what the process runs: "release_log" | "deploy" | "match" | "add_wheel"
    wheels_dir,   \* the files in the directory LocalConf.wheels (base names)
    pathnames,    \* task_add_wheel: the paths the loop has still to visit
    handled       \* task_add_wheel: paths handed to the task so far

logvars == <<file, latest_pkg, log_state, lastCall>>
deployvars ==
    <<all_vpys, reload_once, pc, vpys, idx, to_install, wi, pj, updated_vpys,
      hosts_left, cmds>>
intakevars == <<task, wheels_dir, pathnames, handled>>
vars == <<logvars, deployvars, intakevars>>

(***************************************************************************)
(* The release log on its own: a ReleaseLog constructed on a file and the  *)
(* operations called on it.                                                *)
(***************************************************************************)
SampleVpy == VpyName("www1", "/srv/venv1")
SampleMsg == <<"cannot", SP, "create", SP, "wheel", SP, "directory">>

\* (pkg, version, wheel) arguments of add_release
Releases ==
    {<<"a", "1.0", WheelA10_py3>>, <<"a", "1.0", WheelA10_cp38>>,
     <<"a", "1.5", WheelA15_py3>>, <<"a", "1.10", WheelA110_py23>>,
     <<"a", "2.0", WheelA20_py3>>, <<"b", "1.0", WheelB10_cp38>>}

\* lines of the files a ReleaseLog is constructed on: release records,
\* audit records, lines of no known kind and truncated release records
SampleLines ==
    {release_line("a", "1.0", WheelA10_py3),
     release_line("a", "2.0", WheelA20_py3),
     release_line("a", "1.5", WheelA15_py3),
     release_line("b", "1.0", WheelB10_cp38),
     install_line(SampleVpy, WheelA10_py3),
     _error_message("error", SampleVpy, SampleMsg),
     <<"#", SP, "comment">>,
     <<"release:", SP, "a">>,
     <<"release:", SP, "a", SP, WheelA10_py3, SP, "at", SP, Stamp>>}

RECURSIVE SeqsUpTo(_, _)
SeqsUpTo(S, n) ==
    IF n = 0 THEN {<<>>}
    ELSE LET shorter == SeqsUpTo(S, n - 1)
         IN  shorter \cup {Append(s, x) : s \in shorter, x \in S}

InitFiles == SeqsUpTo(SampleLines, MaxInitLines)

NoCall == [op |-> "none", pkg |-> "", version |-> "", wheel |-> "", added |-> FALSE]

IntakeIdle ==
    /\ wheels_dir = {}
    /\ pathnames = <<>>
    /\ handled = 0

DeployIdle ==
    /\ all_vpys = <<>>
    /\ reload_once = <<>>
    /\ pc = "idle"
    /\ vpys = <<>>
    /\ idx = 0
    /\ to_install = <<>>
    /\ wi = 0
    /\ pj = 0
    /\ updated_vpys = {}
    /\ hosts_left = {}
    /\ cmds = <<>>

InitLog ==
    /\ file \in InitFiles
    /\ latest_pkg = EmptyRepository
    /\ log_state = "unloaded"
    /\ lastCall = NoCall
    /\ DeployIdle
    /\ task = "release_log"
    /\ IntakeIdle

\* ReleaseLog.__init__
ReleaseLog_init ==
    /\ log_state = "unloaded"
    /\ LET r == _read_entries(file)
       IN  /\ log_state' = IF r.raised = "" THEN "loaded" ELSE r.raised
           /\ latest_pkg' = IF r.raised = "" THEN r.repo ELSE latest_pkg
    /\ lastCall' = [NoCall EXCEPT !.op = "__init__"]
    /\ UNCHANGED <<file, deployvars, intakevars>>

\* ReleaseLog.add_release: the line written, then the cache updated
add_release_file_only(log, repo, pkg, version, wheel) ==
    [file |-> Append(log, release_line(pkg, version, wheel)),
     repo |-> repo, added |-> FALSE, raised |-> ""]

add_release(log, repo, pkg, version, wheel) ==
    LET r == add_wheel(repo, pkg, version, wheel)
    IN  [file |-> Append(log, release_line(pkg, version, wheel)),
         repo |-> r.repo, added |-> r.added, raised |-> r.raised]

\* the file opened for writing instead of appending
add_install_truncating(log, vpyname, wheel) == <<install_line(vpyname, wheel)>>

\* ReleaseLog.add_install
add_install(log, vpyname, wheel) == Append(log, install_line(vpyname, wheel))

\* ReleaseLog.log_error: fabric.utils.error warns and returns when the
\* failure of a command is reported to the caller at all (env.warn_only)
log_error(log, vpyname, msg) == Append(log, _error_message("error", vpyname, msg))

\* ReleaseLog.abort: the line written, then fabric.utils.abort raises
abort_returns(log, vpyname, msg) ==
    [file |-> Append(log, _error_message("aborting", vpyname, msg)), raised |-> ""]

abort(log, vpyname, msg) ==
    [file |-> Append(log, _error_message("aborting", vpyname, msg)),
     raised |-> "SystemExit"]

CallAddRelease ==
    /\ log_state = "loaded"
    /\ Len(file) < MaxLines
    /\ \E rel \in Releases :
          LET r == add_release(file, latest_pkg, rel[1], rel[2], rel[3])
          IN  /\ file' = r.file
              /\ latest_pkg' = r.repo
              /\ log_state' = IF r.raised = "" THEN "loaded" ELSE r.raised
              /\ lastCall' = [op |-> "add_release", pkg |-> rel[1], version |-> rel[2],
                              wheel |-> rel[3], added |-> r.added]
    /\ UNCHANGED <<deployvars, intakevars>>

CallAddInstall ==
    /\ log_state = "loaded"
    /\ Len(file) < MaxLines
    /\ file' = add_install(file, SampleVpy, WheelA10_py3)
    /\ lastCall' = [NoCall EXCEPT !.op = "add_install"]
    /\ UNCHANGED <<latest_pkg, log_state, deployvars, intakevars>>

CallLogError ==
    /\ log_state = "loaded"
    /\ Len(file) < MaxLines
    /\ file' = log_error(file, SampleVpy, SampleMsg)
    /\ lastCall' = [NoCall EXCEPT !.op = "log_error"]
    /\ UNCHANGED <<latest_pkg, log_state, deployvars, intakevars>>

\* abort ends the process; the file stays and the next run constructs a
\* ReleaseLog on it
CallAbort ==
    /\ log_state = "loaded"
    /\ Len(file) < MaxLines
    /\ LET r == abort(file, SampleVpy, SampleMsg)
       IN  /\ file' = r.file
           /\ log_state' = IF r.raised = "" THEN "loaded" ELSE "unloaded"
    /\ lastCall' = [NoCall EXCEPT !.op = "abort"]
    /\ UNCHANGED <<latest_pkg, deployvars, intakevars>>

NextLog ==
    \/ ReleaseLog_init
    \/ CallAddRelease
    \/ CallAddInstall
    \/ CallLogError
    \/ CallAbort

SpecLog == InitLog /\ [][NextLog]_vars

(***************************************************************************)
(* PkgSpecList.get_wheel: the wheel that matches the python version best.  *)
(* TagTail gives v[-2] and v[-1] of a python tag.                          *)
(***************************************************************************)
Digits == <<"0", "1", "2", "3", "4", "5", "6", "7", "8", "9">>
isdigit(c) == c \in Range(Digits)
int(c) == (CHOOSE i \in DOMAIN Digits : Digits[i] = c) - 1

TagTail(v) ==
    CASE v = "py2" -> <<"y", "2">>
      [] v = "py3" -> <<"y", "3">>
      [] v = "cp27" -> <<"2", "7">>
      [] v = "cp38" -> <<"3", "8">>
      [] v = "cp39" -> <<"3", "9">>
      [] v = "cp310" -> <<"1", "0">>

ExactTag(v, major, minor) ==
    /\ isdigit(TagTail(v)[1])
    /\ int(TagTail(v)[1]) = major
    /\ int(TagTail(v)[2]) = minor

GenericTag(v, major) ==
    /\ ~isdigit(TagTail(v)[1])
    /\ \/ major = 2 /\ TagTail(v)[2] = "2"
       \/ major = 3 /\ TagTail(v)[2] = "3"

\* the matcher taking the last wheel of a tier
get_wheel_last(self, py_versioninfo) ==
    LET major == py_versioninfo[1]
        minor == py_versioninfo[2]
        exact == {i \in DOMAIN self.wheels :
                    \E v \in Range(self.wheels[i][1]) : ExactTag(v, major, minor)}
        generic == {i \in DOMAIN self.wheels :
                      \E v \in Range(self.wheels[i][1]) : GenericTag(v, major)}
    IN  IF exact # {} THEN Some(self.wheels[Max(exact)][2])
        ELSE IF generic # {} THEN Some(self.wheels[Max(generic)][2])
        ELSE None

get_wheel(self, py_versioninfo) ==
    LET major == py_versioninfo[1]
        minor == py_versioninfo[2]
        exact == {i \in DOMAIN self.wheels :
                    \E v \in Range(self.wheels[i][1]) : ExactTag(v, major, minor)}
        generic == {i \in DOMAIN self.wheels :
                      \E v \in Range(self.wheels[i][1]) : GenericTag(v, major)}
    IN  IF exact # {} THEN Some(self.wheels[Min(exact)][2])
        ELSE IF generic # {} THEN Some(self.wheels[Min(generic)][2])
        ELSE None

(***************************************************************************)
(* _lines_to_requirements: "pkg" or "pkg==version" lines as a dict, a      *)
(* later line of a package replacing an earlier one.                       *)
(***************************************************************************)
RequirementName(l) == Text(Split(Strip(l), EQ, 1)[1])

RequirementVersion(l) ==
    LET x == Split(Strip(l), EQ, 1)
    IN  IF Len(x) = 2 THEN Some(LooseVersion(Text(x[2]))) ELSE None

_lines_to_requirements(lines) ==
    [n \in {RequirementName(lines[i]) : i \in DOMAIN lines} |->
        RequirementVersion(lines[Max({i \in DOMAIN lines : RequirementName(lines[i]) = n})])]

\* the names of the requirements that carry no version
RECURSIVE keys_unpinned_only(_)
keys_unpinned_only(lines) ==
    IF lines = <<>> THEN <<>>
    ELSE (IF Len(Split(Strip(Head(lines)), EQ, 1)) = 2 THEN <<>>
          ELSE <<RequirementName(Head(lines))>>)
         \o keys_unpinned_only(Tail(lines))

\* dict.keys(): the order of a dict's keys is that of the lines it was read from
RECURSIVE keys(_)
keys(lines) ==
    IF lines = <<>> THEN <<>>
    ELSE LET rest == keys(Tail(lines))
             n == RequirementName(Head(lines))
         IN  IF n \in Range(rest) THEN rest ELSE <<n>> \o rest

\* dict.get(key): None for a key the dict does not hold
get(dict, key) == IF key \in DOMAIN dict THEN dict[key] ELSE None

(***************************************************************************)
(* VirtualenvConf.  A virtualenv is a record of its configuration and of   *)
(* what its remote side answers: the lines of `pip freeze` and the version *)
(* `python --version` reports.                                             *)
(***************************************************************************)
\* VirtualenvConf.__unicode__
unicode(vpy) == VpyName(vpy.hostname, vpy.vpy_path)

\* VirtualenvConf.get_installed_pkgs
get_installed_pkgs(vpy) == _lines_to_requirements(vpy.freeze)

\* VirtualenvConf.get_py_version
get_py_version(vpy) == vpy.python_version

RECURSIVE Select(_, _)
Select(rows, keep) ==
    IF rows = <<>> THEN <<>>
    ELSE (IF Head(rows) \in keep THEN <<Head(rows)>> ELSE <<>>) \o Select(Tail(rows), keep)

\* the planner without the comparison of versions
get_pkgs_to_install_any_version(vpy, repo, pyversion) ==
    LET installed == get_installed_pkgs(vpy)
        names == keys(vpy.requirements) \o vpy.site_packages
        row(i) ==
            LET pkg == names[i]
                spec == get(repo, pkg)
            IN  [n |-> i, pkg |-> pkg, spec |-> spec,
                 wheel |-> IF spec # None THEN get_wheel(spec, pyversion) ELSE None,
                 version |-> get(installed, pkg)]
        rows == MapSeq(row, Indices(Len(names)))
        all == Range(rows)
        toInstall == {r \in all : r.wheel # None}
        isMissing == {r \in all : r.wheel = None}
        isAhead == {r \in all : /\ r.wheel # None
                                /\ r.version # None
                                /\ VersionLess(r.spec.version, r.version[1])}
        wheelOf(r) == r.wheel[1]
        pkgOf(r) == r.pkg
        pkgSpecOf(r) == [pkg |-> r.pkg, version |-> r.version[1], wheel |-> r.wheel[1]]
    IN  [installables |-> MapSeq(wheelOf, Select(rows, toInstall)),
         missing |-> MapSeq(pkgOf, Select(rows, isMissing)),
         ahead |-> MapSeq(pkgSpecOf, Select(rows, isAhead))]

\* VirtualenvConf.get_pkgs_to_install
get_pkgs_to_install(vpy, repo, pyversion) ==
    LET installed == get_installed_pkgs(vpy)
        names == keys(vpy.requirements) \o vpy.site_packages
        row(i) ==
            LET pkg == names[i]
                spec == get(repo, pkg)
            IN  [n |-> i, pkg |-> pkg, spec |-> spec,
                 wheel |-> IF spec # None THEN get_wheel(spec, pyversion) ELSE None,
                 version |-> get(installed, pkg)]
        rows == MapSeq(row, Indices(Len(names)))
        all == Range(rows)
        toInstall == {r \in all : /\ r.wheel # None
                                  /\ \/ r.version = None
                                     \/ VersionLess(r.version[1], r.spec.version)}
        isMissing == {r \in all : r.wheel = None}
        isAhead == {r \in all : /\ r.wheel # None
                                /\ r.version # None
                                /\ VersionLess(r.spec.version, r.version[1])}
        wheelOf(r) == r.wheel[1]
        pkgOf(r) == r.pkg
        pkgSpecOf(r) == [pkg |-> r.pkg, version |-> r.version[1], wheel |-> r.wheel[1]]
    IN  [installables |-> MapSeq(wheelOf, Select(rows, toInstall)),
         missing |-> MapSeq(pkgOf, Select(rows, isMissing)),
         ahead |-> MapSeq(pkgSpecOf, Select(rows, isAhead))]

\* VirtualenvConf.match: queries are token sequences, "@" and ":" tokens
match(vpy, query) ==
    LET hasUser == "@" \in Range(query)
        byUser == Split(query, "@", Len(query))
        q1 == IF hasUser THEN byUser[2] ELSE query
        hasPath == ":" \in Range(q1)
        byPath == Split(q1, ":", Len(q1))
        q2 == IF hasPath THEN byPath[1] ELSE q1
    IN  IF hasUser /\ vpy.vpy_user # Text(byUser[1]) THEN FALSE
        ELSE IF hasPath /\ vpy.vpy_path # Text(byPath[2]) THEN FALSE
        ELSE IF Text(q2) = "" THEN TRUE
        ELSE Text(q2) = vpy.hostname

(***************************************************************************)
(* The configurations task_deploy runs on.                                 *)
(***************************************************************************)
Hosts == {"www1", "localhost"}

Project(settings_module, migrate) ==
    [settings_module |-> settings_module, user |-> "www", migrate |-> migrate]

\* two wheels to install, two projects to migrate
VpyTwoWheels ==
    [hostname |-> "www1", vpy_path |-> "", ssh_user |-> "admin", vpy_user |-> "yoda",
     requirements |-> << <<"a">>, <<"b", EQ, "1.0">> >>, site_packages |-> <<>>,
     projects |-> <<Project("shop", TRUE), Project("blog", TRUE)>>,
     freeze |-> <<>>, python_version |-> <<3, 8>>]

\* one wheel to install, the second project migrates
VpyOneWheel ==
    [hostname |-> "www1", vpy_path |-> "", ssh_user |-> "yoda", vpy_user |-> "yoda",
     requirements |-> << <<"a">> >>, site_packages |-> <<>>,
     projects |-> <<Project("static", FALSE), Project("shop", TRUE)>>,
     freeze |-> <<>>, python_version |-> <<3, 9>>]

\* on localhost: a is installed at the released version, b is not installed
VpyLocal ==
    [hostname |-> "localhost", vpy_path |-> "", ssh_user |-> "dev", vpy_user |-> "dev",
     requirements |-> << <<"a">>, <<"b">> >>, site_packages |-> <<>>,
     projects |-> <<Project("shop", TRUE)>>,
     freeze |-> << <<"a", EQ, "1.0">> >>, python_version |-> <<3, 8>>]

\* python 3.9: a has a wheel, b has none
VpyMissing ==
    [hostname |-> "www1", vpy_path |-> "", ssh_user |-> "admin", vpy_user |-> "yoda",
     requirements |-> << <<"a">>, <<"b">> >>, site_packages |-> <<>>,
     projects |-> <<Project("shop", TRUE)>>,
     freeze |-> <<>>, python_version |-> <<3, 9>>]

\* a is installed ahead of the repository: nothing to install
VpyCurrent ==
    [hostname |-> "localhost", vpy_path |-> "", ssh_user |-> "dev", vpy_user |-> "dev",
     requirements |-> << <<"a">> >>, site_packages |-> <<>>,
     projects |-> <<Project("shop", TRUE)>>,
     freeze |-> << <<"a", EQ, "2.0">> >>, python_version |-> <<3, 8>>]

VpyKinds == {VpyTwoWheels, VpyOneWheel, VpyLocal, VpyMissing, VpyCurrent}

\* the virtualenvs of a configuration have paths of their own
VpyPaths == <<"/srv/venv1", "/srv/venv2", "/srv/venv3", "/srv/venv4", "/srv/venv5">>

RECURSIVE WithPaths(_)
WithPaths(ks) ==
    IF ks = <<>> THEN <<>>
    ELSE Append(WithPaths(SubSeq(ks, 1, Len(ks) - 1)),
                [ks[Len(ks)] EXCEPT !.vpy_path = VpyPaths[Len(ks)]])

Fleets == {WithPaths(ks) : ks \in SeqsUpTo(VpyKinds, MaxTargets) \ {<<>>}}

\* the release log the deployments run on
DeployLog ==
    <<release_line("a", "1.0", WheelA10_py3),
      release_line("a", "1.0", WheelA10_cp38),
      release_line("b", "1.0", WheelB10_cp38)>>

\* the vpy_names argument of task_deploy
VpyNames == {<<>>, <<"www1">>, <<"dev", "@", "localhost", ",", "www1">>}

\* answers to prompt('update? [j/n]')
Answers == {"Y", "n"}

lower(answer) ==
    CASE answer = "Y" -> "y"
      [] answer = "J" -> "j"
      [] OTHER -> answer

InitDeploy ==
    /\ file = DeployLog
    /\ latest_pkg = _read_entries(DeployLog).repo
    /\ log_state = "loaded"
    /\ lastCall = [NoCall EXCEPT !.op = "__init__"]
    /\ all_vpys \in Fleets
    /\ reload_once \in [Hosts -> BOOLEAN]
    /\ pc = "idle"
    /\ vpys = <<>>
    /\ idx = 0
    /\ to_install = <<>>
    /\ wi = 0
    /\ pj = 0
    /\ updated_vpys = {}
    /\ hosts_left = {}
    /\ cmds = <<>>
    /\ task = "deploy"
    /\ IntakeIdle

(***************************************************************************)
(* LocalConf.task_deploy, one action per command it runs on a collaborator *)
(* (remote command, file transfer, prompt).                                *)
(***************************************************************************)
Cmd(cmd, v, arg, ok) == [cmd |-> cmd, vpy |-> v, arg |-> arg, ok |-> ok]

vpy == all_vpys[vpys[idx]]

\* the words of a message, a blank between each two
RECURSIVE Words(_)
Words(ws) ==
    IF Len(ws) <= 1 THEN ws ELSE <<Head(ws), SP>> \o Words(Tail(ws))

\* ", ".join(p.wheel for p in wheels): the wheels are file names (unicode),
\* which have no attribute `wheel`
join_wheel_attrs(wheels) ==
    IF wheels = <<>> THEN [text |-> <<>>, raised |-> ""]
    ELSE [text |-> <<>>, raised |-> "AttributeError"]

\* a reload loop over the hosts of all selected virtualenvs
AfterTry_every_host(updated) ==
    LET hosts == {all_vpys[v].hostname : v \in Range(vpys)}
    IN  IF hosts # {}
        THEN pc' = "reload" /\ hosts_left' = hosts /\ idx' = idx
        ELSE /\ hosts_left' = {}
             /\ idx' = idx + 1
             /\ pc' = IF idx < Len(vpys) THEN "plan" ELSE "done"

\* the statement after `except Skip: pass`: the reload loop, and after it
\* the next virtualenv of the outer loop
AfterTry(updated) ==
    LET hosts == {all_vpys[v].hostname : v \in updated}
    IN  IF hosts # {}
        THEN pc' = "reload" /\ hosts_left' = hosts /\ idx' = idx
        ELSE /\ hosts_left' = {}
             /\ idx' = idx + 1
             /\ pc' = IF idx < Len(vpys) THEN "plan" ELSE "done"

\* lines 368-370
task_deploy ==
    /\ pc = "idle"
    /\ \E vpy_names \in VpyNames :
          LET vpy_name_list == Split(vpy_names, ",", Len(vpy_names))
              selected == {v \in DOMAIN all_vpys :
                             \E n \in DOMAIN vpy_name_list :
                                 match(all_vpys[v], vpy_name_list[n])}
          IN  vpys' = Select(Indices(Len(all_vpys)), selected)
    /\ updated_vpys' = {}
    /\ idx' = 1
    /\ pc' = IF vpys' # <<>> THEN "plan" ELSE "done"
    /\ UNCHANGED <<logvars, intakevars, all_vpys, reload_once, to_install, wi, pj, hosts_left, cmds>>

\* what the planner found on the virtualenv, as the task prints it
Found(plan) ==
    IF plan.missing # <<>> THEN "missing packages"
    ELSE IF plan.installables = <<>> THEN "Nichts zu installieren."
    ELSE "Zu installieren"

\* the packages decide that the virtualenv is skipped (lines 381-386)
skip_unless_missing_only(plan) == plan.installables = <<>>

skip_at_planning(plan) == plan.missing # <<>> \/ plan.installables = <<>>

\* lines 376-386
Plan ==
    /\ pc = "plan"
    /\ LET pyversion == get_py_version(vpy)
           plan == get_pkgs_to_install(vpy, latest_pkg, pyversion)
       IN  /\ cmds' = Append(cmds, Cmd("freeze", vpys[idx], Found(plan), TRUE))
           /\ to_install' = plan.installables
           /\ IF skip_at_planning(plan)
              THEN AfterTry(updated_vpys)
              ELSE pc' = "confirm" /\ UNCHANGED <<idx, hosts_left>>
    /\ UNCHANGED <<logvars, intakevars, all_vpys, reload_once, vpys, wi, pj, updated_vpys>>

\* confirm.lower() in ('j', 'y')  (line 388)
confirmed(confirm) == lower(confirm) \in {"j", "y"}

\* lines 387-390
Confirm ==
    /\ pc = "confirm"
    /\ \E confirm \in Answers :
          /\ cmds' = Append(cmds, Cmd("prompt", vpys[idx], confirm, TRUE))
          /\ IF confirmed(confirm)
             THEN /\ updated_vpys' = updated_vpys \cup {vpys[idx]}
                  /\ pc' = "mkdir"
                  /\ UNCHANGED <<idx, hosts_left>>
             ELSE /\ AfterTry(updated_vpys)
                  /\ UNCHANGED updated_vpys
    /\ UNCHANGED <<logvars, intakevars, all_vpys, reload_once, vpys, to_install, wi, pj>>

\* a wheel loop without the transfer
WheelPc_install == "install"

\* where the wheel loop starts on a wheel: the transfer, or on localhost
\* the install (lines 395-398)
WheelPc == IF vpy.hostname = "localhost" THEN "install" ELSE "put"

\* where the project loop goes after project j: the next project that
\* migrates, or the second round of add_install
AfterProject(j) ==
    LET next == {k \in DOMAIN vpy.projects : k > j /\ vpy.projects[k].migrate}
    IN  IF next # {} THEN pc' = "migrate" /\ pj' = Min(next)
        ELSE pc' = "record" /\ pj' = 0

\* lines 391-393
Mkdir ==
    /\ pc = "mkdir"
    /\ \E ok \in BOOLEAN :
          LET r == IF ok THEN [file |-> file, raised |-> ""]
                   ELSE abort(file, unicode(vpy),
                              Words(<<"cannot", "create", "wheel", "directory">>))
          IN  /\ cmds' = Append(cmds, Cmd("mkdir", vpys[idx], "", ok))
              /\ file' = r.file
              /\ IF r.raised # ""
                 THEN pc' = "aborted" /\ wi' = wi
                 ELSE pc' = WheelPc /\ wi' = 1
    /\ UNCHANGED <<latest_pkg, log_state, lastCall, intakevars, all_vpys, reload_once, vpys, idx,
                   to_install, pj, updated_vpys, hosts_left>>

\* lines 399-403
Transfer ==
    /\ pc = "put"
    /\ \E ok \in BOOLEAN :
          LET wheel == to_install[wi]
              r == IF ok THEN [file |-> file, raised |-> ""]
                   ELSE abort(file, unicode(vpy), Words(<<"could", "not", "put", wheel>>))
          IN  /\ cmds' = Append(cmds, Cmd("put", vpys[idx], wheel, ok))
              /\ file' = r.file
              /\ pc' = IF r.raised # "" THEN "aborted" ELSE "install"
    /\ UNCHANGED <<latest_pkg, log_state, lastCall, intakevars, all_vpys, reload_once, vpys, idx,
                   to_install, wi, pj, updated_vpys, hosts_left>>

\* lines 404-408
Install ==
    /\ pc = "install"
    /\ \E ok \in BOOLEAN :
          LET wheel == to_install[wi]
              before == join_wheel_attrs(SubSeq(to_install, 1, wi - 1))
              r == IF ok THEN [file |-> file, raised |-> ""]
                   ELSE IF before.raised # "" THEN [file |-> file, raised |-> before.raised]
                   ELSE abort(file, unicode(vpy),
                              Words(<<"could", "not", "install", wheel, "after",
                                      "installing">>) \o <<SP>> \o before.text)
          IN  /\ cmds' = Append(cmds, Cmd("install", vpys[idx], wheel, ok))
              /\ IF r.raised = "SystemExit"
                 THEN file' = r.file /\ pc' = "aborted" /\ UNCHANGED <<wi, pj>>
                 ELSE IF r.raised # ""
                 THEN file' = r.file /\ pc' = "crashed" /\ UNCHANGED <<wi, pj>>
                 ELSE /\ file' = add_install(r.file, unicode(vpy), wheel)
                      /\ IF wi < Len(to_install)
                         THEN pc' = WheelPc /\ wi' = wi + 1 /\ pj' = pj
                         ELSE AfterProject(0) /\ wi' = wi
    /\ UNCHANGED <<latest_pkg, log_state, lastCall, intakevars, all_vpys, reload_once, vpys, idx,
                   to_install, updated_vpys, hosts_left>>

\* lines 409-418
Migrate ==
    /\ pc = "migrate"
    /\ \E ok \in BOOLEAN :
          LET proj == vpy.projects[pj]
              installed == join_wheel_attrs(to_install)
          IN  /\ cmds' = Append(cmds, Cmd("migrate", vpys[idx], proj.settings_module, ok))
              /\ IF ok
                 THEN file' = file /\ AfterProject(pj)
                 ELSE IF installed.raised # ""
                 THEN file' = file /\ pc' = "crashed" /\ pj' = pj
                 ELSE /\ file' = log_error(file, unicode(vpy),
                                           Words(<<"could", "not", "migrate", "in",
                                                   proj.settings_module, "after",
                                                   "installing">>)
                                           \o <<SP>> \o installed.text)
                      /\ AfterProject(pj)
    /\ UNCHANGED <<latest_pkg, log_state, lastCall, intakevars, all_vpys, reload_once, vpys, idx,
                   to_install, wi, updated_vpys, hosts_left>>

\* lines 419-420
RecordInstalls ==
    /\ pc = "record"
    /\ LET line(wheel) == install_line(unicode(vpy), wheel)
       IN  file' = file \o MapSeq(line, to_install)
    /\ AfterTry(updated_vpys)
    /\ UNCHANGED <<latest_pkg, log_state, lastCall, intakevars, all_vpys, reload_once, vpys,
                   to_install, wi, pj, updated_vpys, cmds>>

\* HostConf.reload_webservices: the virtualenvs the reload command is run for
reload_targets(once, host_vpys) ==
    IF once THEN SubSeq(host_vpys, 1, Min({1, Len(host_vpys)})) ELSE host_vpys

\* lines 423-425, one host of the set per step; the result of the reload
\* command is not looked at
ReloadHost ==
    /\ pc = "reload"
    /\ \E host \in hosts_left :
          LET on_host == {v \in Range(vpys) : all_vpys[v].hostname = host}
              reload(v) == Cmd("reload", v, host, TRUE)
          IN  /\ cmds' = cmds \o MapSeq(reload, reload_targets(reload_once[host],
                                                                Select(vpys, on_host)))
              /\ IF hosts_left = {host}
                 THEN /\ hosts_left' = {}
                      /\ idx' = idx + 1
                      /\ pc' = IF idx < Len(vpys) THEN "plan" ELSE "done"
                 ELSE /\ hosts_left' = hosts_left \ {host}
                      /\ UNCHANGED <<idx, pc>>
    /\ UNCHANGED <<logvars, intakevars, all_vpys, reload_once, vpys, to_install, wi, pj,
                   updated_vpys>>

NextDeploy ==
    \/ task_deploy
    \/ Plan
    \/ Confirm
    \/ Mkdir
    \/ Transfer
    \/ Install
    \/ Migrate
    \/ RecordInstalls
    \/ ReloadHost

SpecDeploy == InitDeploy /\ [][NextDeploy]_vars

(***************************************************************************)
(* The wheel matcher and the planner on their own: PkgSpecList.get_wheel   *)
(* and VirtualenvConf.get_pkgs_to_install applied to the repositories a    *)
(* release log replays to.                                                 *)
(***************************************************************************)
\* release records of the logs the matcher and the planner are applied to
MatchLines ==
    {release_line("a", "1.0", WheelA10_py3),
     release_line("a", "1.0", WheelA10_cp38),
     release_line("a", "1.0", WheelA10_py3_linux),
     release_line("a", "1.0", WheelA10_cp38_win),
     release_line("a", "1.10", WheelA110_py23),
     release_line("a", "2.0", WheelA20_py3),
     release_line("b", "1.0", WheelB10_cp38),
     release_line("b", "1.0", WheelB10_cp310)}

\* PyVersionInfo(major, minor) as get_py_version reads it off `python --version`
PyVersions == {<<2, 7>>, <<3, 8>>, <<3, 9>>, <<3, 10>>}

\* the lines `pip freeze` prints on the virtualenvs the planner is applied to
Freezes ==
    {fa \o fb : fa \in {<<>>, << <<"a", EQ, "1.0">> >>, << <<"a", EQ, "1.5">> >>,
                        << <<"a", EQ, "2.0">> >>},
                fb \in {<<>>, << <<"b", EQ, "1.0">> >>} }

\* virtualenvs that require a and b, some a package c no release log holds
MatchVpys ==
    {[hostname |-> "www1", vpy_path |-> "/srv/venv1", ssh_user |-> "admin",
      vpy_user |-> "yoda", requirements |-> << <<"a">>, <<"b", EQ, "1.0">> >>,
      site_packages |-> sp, projects |-> <<>>, freeze |-> fr, python_version |-> py] :
        sp \in {<<>>, <<"c">>}, fr \in Freezes, py \in PyVersions \ {<<3, 10>>}}

\* virtualenvs that name package a in their requirements and in their
\* site_packages as well
DupVpys ==
    {[hostname |-> "www1", vpy_path |-> "/srv/venv1", ssh_user |-> "admin",
      vpy_user |-> "yoda", requirements |-> << <<"a">>, <<"b", EQ, "1.0">> >>,
      site_packages |-> <<"a">>, projects |-> <<>>, freeze |-> fr,
      python_version |-> py] :
        fr \in {<<>>, << <<"a", EQ, "2.0">> >>}, py \in {<<2, 7>>, <<3, 8>>}}

\* virtualenvs whose requirements pin package a to a version
PinVpys ==
    {[hostname |-> "www1", vpy_path |-> "/srv/venv1", ssh_user |-> "admin",
      vpy_user |-> "yoda", requirements |-> << <<"a", EQ, pin>>, <<"b">> >>,
      site_packages |-> <<>>, projects |-> <<>>, freeze |-> fr,
      python_version |-> <<3, 8>>] :
        pin \in {"1.0", "2.0"}, fr \in {<<>>, << <<"a", EQ, "1.0">> >>}}

PlannerVpys == MatchVpys \cup DupVpys \cup PinVpys

InitMatch ==
    /\ file \in SeqsUpTo(MatchLines, MaxInitLines)
    /\ latest_pkg = _read_entries(file).repo
    /\ log_state = "loaded"
    /\ lastCall = [NoCall EXCEPT !.op = "__init__"]
    /\ DeployIdle
    /\ task = "match"
    /\ IntakeIdle

\* spec.get_wheel(pyversion) on an entry of the repository.  A query leaves
\* the log as it is, so a query after another one reaches no state that
\* the first query on the loaded log does not reach.
CallGetWheel ==
    /\ lastCall.op = "__init__"
    /\ \E pkg \in DOMAIN latest_pkg, py_versioninfo \in PyVersions :
          lastCall' = [op |-> "get_wheel", pkg |-> pkg, py_versioninfo |-> py_versioninfo,
                       result |-> get_wheel(latest_pkg[pkg], py_versioninfo)]
    /\ UNCHANGED <<file, latest_pkg, log_state, deployvars, intakevars>>

\* vpy.get_pkgs_to_install(release_log, vpy.get_py_version())
CallGetPkgsToInstall ==
    /\ lastCall.op = "__init__"
    /\ \E v \in PlannerVpys :
          lastCall' = [op |-> "get_pkgs_to_install", vpy |-> v,
                       result |-> get_pkgs_to_install(v, latest_pkg, get_py_version(v))]
    /\ UNCHANGED <<file, latest_pkg, log_state, deployvars, intakevars>>

NextMatch ==
    \/ CallGetWheel
    \/ CallGetPkgsToInstall

SpecMatch == InitMatch /\ [][NextMatch]_vars

(***************************************************************************)
(* LocalConf.task_add_wheel: wheel files taken into the wheel directory    *)
(* and released in the release log.  A path is the sequence of its tokens, *)
(* "/", "-", "_" and the suffix being tokens of their own.                 *)
(***************************************************************************)
\* "".join(tokens): the text a token sequence stands for
RECURSIVE Join(_)
Join(tokens) == IF tokens = <<>> THEN "" ELSE Head(tokens) \o Join(Tail(tokens))

\* path.endswith(suffix)
endswith(path, suffix) == path # <<>> /\ path[Len(path)] = suffix

\* os.path.basename(path): what follows the last "/"
basename(path) ==
    IF "/" \notin Range(path) THEN path
    ELSE SubSeq(path, Max({i \in DOMAIN path : path[i] = "/"}) + 1, Len(path))

\* unicode.replace(old, new)
replace(s, old, new) ==
    LET swap(c) == IF c = old THEN new ELSE c
    IN  MapSeq(swap, s)

\* os.path.exists(os.path.join(self.wheels, basepath))
exists_never(dir, basepath) == FALSE

exists(dir, basepath) == basepath \in dir

\* list == unicode in Python: objects of different types are not equal
ListEqualsUnicode(l, u) == FALSE

\* `py_version in v`: py_version is the list get_platform_tags returns, v the
\* list of tags (unicode) of a wheel of the entry
contains(v, py_version) == \E i \in DOMAIN v : ListEqualsUnicode(py_version, v[i])

\* the arguments of task_add_wheel
Dir == <<"/", "dl", "/">>
PurePy3 == <<"-", "py3", "-", "none", "-", "any", ".whl">>
Linux == <<"linux", "_", "x86", "_", "64", ".whl">>
PathA10_py3 == Dir \o <<"a", "-", "1.0">> \o PurePy3
PathA10_cp38 == Dir \o <<"a", "-", "1.0", "-", "cp38", "-", "cp38", "-">> \o Linux
PathA10_py3_linux == Dir \o <<"a", "-", "1.0", "-", "py3", "-", "none", "-">> \o Linux
PathA20_py3 == Dir \o <<"a", "-", "2.0">> \o PurePy3
PathMyPkg10 == Dir \o <<"my", "_", "pkg", "-", "1.0">> \o PurePy3
PathMyPkg20 == Dir \o <<"my", "_", "pkg", "-", "2.0">> \o PurePy3
PathNotes == Dir \o <<"notes", ".txt">>
PathBroken == Dir \o <<"broken", ".whl">>
IntakePaths ==
    {PathA10_py3, PathA10_cp38, PathA10_py3_linux, PathA20_py3, PathMyPkg10,
     PathMyPkg20, PathNotes, PathBroken}

\* one round of the loop over pathnames (lines 430-452): the wheel
\* directory, the release log and the repository after it, the warning
\* given, and how the round ends: "continue" with the next path, "return"
\* from the task, or the exception raised
Round(dir, log, repo, warn, flow) ==
    [dir |-> dir, file |-> log, repo |-> repo, warn |-> warn, flow |-> flow]

add_wheel_path(path, dir, log, repo) ==
    IF ~endswith(path, ".whl")
    THEN Round(dir, log, repo, "Ignoring non-wheel-file", "continue")
    ELSE
    LET basepath == Join(basename(path))
        parts == Split(basename(path), "-", 2)
    IN  IF exists(dir, basepath)
        THEN Round(dir, log, repo, "already exists, ignoring", "continue")
        ELSE IF Len(parts) # 3
        THEN Round(dir, log, repo, "", "ValueError")
        ELSE
        LET pkg == Join(parts[1])
            version == Join(parts[2])
            existing_pkg == get(repo, pkg)
            older == /\ existing_pkg # None
                     /\ VersionLess(LooseVersion(version), existing_pkg.version)
            equal == /\ existing_pkg # None
                     /\ LooseVersion(version) = existing_pkg.version
            py_version == get_platform_tags(basepath)
            released == add_release(log, repo, Join(replace(parts[1], "_", "-")),
                                    version, basepath)
        IN  IF older
            THEN Round(dir, log, repo, "is out of date, ignoring", "return")
            ELSE IF equal /\ ~IsWheelFilename(basepath)
            THEN Round(dir, log, repo, "", "InvalidWheelFilename")
            ELSE IF equal /\ \E i \in DOMAIN existing_pkg.wheels :
                                 contains(existing_pkg.wheels[i][1], py_version)
            THEN Round(dir, log, repo, "already in repository, ignoring", "return")
            ELSE Round(dir \cup {basepath}, released.file, released.repo, "",
                       IF released.raised = "" THEN "continue" ELSE released.raised)

InitIntake ==
    /\ file = <<>>
    /\ latest_pkg = EmptyRepository
    /\ log_state = "loaded"
    /\ lastCall = [NoCall EXCEPT !.op = "__init__"]
    /\ DeployIdle
    /\ task = "add_wheel"
    /\ IntakeIdle

\* task_add_wheel(*pathnames) called
task_add_wheel ==
    /\ log_state = "loaded"
    /\ pathnames = <<>>
    /\ handled < MaxPaths
    /\ \E ps \in SeqsUpTo(IntakePaths, MaxPaths - handled) \ {<<>>} :
          /\ pathnames' = ps
          /\ handled' = handled + Len(ps)
    /\ lastCall' = [op |-> "task_add_wheel", path |-> <<>>, warn |-> "", flow |-> ""]
    /\ UNCHANGED <<file, latest_pkg, log_state, deployvars, task, wheels_dir>>

\* the loop of task_add_wheel on its next path; an exception ends the
\* process, and the next one constructs its ReleaseLog on the file
AddWheelPath ==
    /\ log_state = "loaded"
    /\ pathnames # <<>>
    /\ LET r == add_wheel_path(Head(pathnames), wheels_dir, file, latest_pkg)
       IN  /\ wheels_dir' = r.dir
           /\ file' = r.file
           /\ latest_pkg' = r.repo
           /\ pathnames' = IF r.flow = "continue" THEN Tail(pathnames) ELSE <<>>
           /\ log_state' = IF r.flow \in {"continue", "return"} THEN "loaded"
                           ELSE "unloaded"
           /\ lastCall' = [op |-> "add_wheel_path", path |-> Head(pathnames),
                           warn |-> r.warn, flow |-> r.flow]
    /\ UNCHANGED <<deployvars, task, handled>>

NextIntake ==
    \/ task_add_wheel
    \/ AddWheelPath
    \/ ReleaseLog_init

SpecIntake == InitIntake /\ [][NextIntake]_vars

(***************************************************************************)
(* Every writer of the release log: a process runs the operations of a     *)
(* ReleaseLog, task_deploy or task_add_wheel.                              *)
(***************************************************************************)
InitLedger == InitLog \/ InitDeploy \/ InitIntake

NextLedger ==
    \/ task = "release_log" /\ NextLog
    \/ task = "deploy" /\ NextDeploy
    \/ task = "add_wheel" /\ NextIntake

SpecLedger == InitLedger /\ [][NextLedger]_vars

(***************************************************************************)
(* Claims about the release log and the repository.                        *)
(***************************************************************************)
WheelNames(entry) == [i \in DOMAIN entry.wheels |-> entry.wheels[i][2]]

IsReleaseOf(l, pkg) == Len(l) >= 5 /\ l[1] = "release:" /\ l[3] = pkg /\ l[4] = EQ

\* the versions package pkg was released at, in file order
RECURSIVE ReleasedVersions(_, _)
ReleasedVersions(lines, pkg) ==
    IF lines = <<>> THEN <<>>
    ELSE (IF IsReleaseOf(Head(lines), pkg) THEN <<Head(lines)[5]>> ELSE <<>>)
         \o ReleasedVersions(Tail(lines), pkg)

\* C7: PkgRepository.add_wheel(pkg, version, wheel) replaces the entry by the
\* single-wheel entry [wheel] when pkg is absent or version is strictly
\* greater, appends wheel to the entry (no dedup) when version is equal, and
\* leaves the repository alone and reports not-added when version is
\* strictly less; the entries of other packages never change.
C7_AddWheelStep ==
    (lastCall'.op = "add_release" /\ file' # file) =>
        LET pkg == lastCall'.pkg
            v == LooseVersion(lastCall'.version)
            wheel == lastCall'.wheel
            absent == pkg \notin DOMAIN latest_pkg
        IN  /\ (absent \/ (~absent /\ VersionLess(latest_pkg[pkg].version, v))) =>
                  /\ DOMAIN latest_pkg' = DOMAIN latest_pkg \cup {pkg}
                  /\ latest_pkg'[pkg].version = v
                  /\ WheelNames(latest_pkg'[pkg]) = <<wheel>>
                  /\ lastCall'.added
            /\ (~absent /\ v = latest_pkg[pkg].version) =>
                  /\ DOMAIN latest_pkg' = DOMAIN latest_pkg
                  /\ latest_pkg'[pkg].version = latest_pkg[pkg].version
                  /\ WheelNames(latest_pkg'[pkg])
                        = Append(WheelNames(latest_pkg[pkg]), wheel)
                  /\ lastCall'.added
            /\ (~absent /\ VersionLess(v, latest_pkg[pkg].version)) =>
                  /\ latest_pkg' = latest_pkg
                  /\ ~lastCall'.added
            /\ \A q \in DOMAIN latest_pkg \ {pkg} :
                  q \in DOMAIN latest_pkg' /\ latest_pkg'[q] = latest_pkg[q]

C7_AddWheelThreeWay == [][C7_AddWheelStep]_vars

\* C7 witness: an older release was just refused while an entry holds the
\* same wheel twice (an equal version appended without dedup)
C7_Witness ==
    /\ lastCall.op = "add_release"
    /\ ~lastCall.added
    /\ \E p \in DOMAIN latest_pkg :
          /\ Len(latest_pkg[p].wheels) = 2
          /\ latest_pkg[p].wheels[1] = latest_pkg[p].wheels[2]

C8_Monotone ==
    \A p \in DOMAIN latest_pkg :
        /\ p \in DOMAIN latest_pkg'
        /\ ~VersionLess(latest_pkg'[p].version, latest_pkg[p].version)

C8_WheelsAtEntryVersion ==
    log_state = "loaded" =>
        \A p \in DOMAIN latest_pkg :
            \A i \in DOMAIN latest_pkg[p].wheels :
                \E l \in Range(file) :
                    /\ IsReleaseOf(l, p)
                    /\ Len(l) >= 7
                    /\ l[7] = latest_pkg[p].wheels[i][2]
                    /\ LooseVersion(l[5]) = latest_pkg[p].version

C8_Scenario ==
    (log_state = "loaded" /\ ReleasedVersions(file, "a") = <<"1.0", "2.0", "1.5">>) =>
        /\ "a" \in DOMAIN latest_pkg
        /\ latest_pkg["a"].version = <<2, 0>>
        /\ WheelA15_py3 \notin Range(WheelNames(latest_pkg["a"]))

\* C8: over any sequence of release recordings (replay or add_release) the
\* version held for a package never decreases and no entry is deleted; every
\* wheel of an entry was released at exactly the entry's version; releasing
\* a 1.0, then 2.0, then 1.5 leaves the entry at 2.0 without the 1.5 wheel.
C8_CatalogNeverRegresses ==
    /\ [][C8_Monotone]_vars
    /\ [](C8_WheelsAtEntryVersion /\ C8_Scenario)

\* C8 witness: a was released at 1.0, 2.0 and then 1.5, the last by add_release
C8_Witness ==
    /\ log_state = "loaded"
    /\ ReleasedVersions(file, "a") = <<"1.0", "2.0", "1.5">>
    /\ lastCall.op = "add_release"
    /\ lastCall.version = "1.5"

C9_CacheIsReplay ==
    log_state = "loaded" =>
        LET r == _read_entries(file)
        IN  r.raised = "" /\ r.repo = latest_pkg

C9_AuditStep ==
    (lastCall'.op \in {"add_install", "log_error", "abort"} /\ file' # file) =>
        latest_pkg' = latest_pkg

\* C9: after any sequence of add_release, add_install, log_error and abort
\* on a ReleaseLog loaded from a file, latest_pkg equals the repository
\* replayed from the current file; install, error and aborting records
\* change it neither when written nor on replay.
C9_CatalogEqualsReplay == [](C9_CacheIsReplay) /\ [][C9_AuditStep]_vars

\* C9 witness: a loaded log whose file holds a release written by
\* add_release after an aborting record, then an install record
C9_Witness ==
    /\ log_state = "loaded"
    /\ lastCall.op = "add_install"
    /\ DOMAIN latest_pkg # {}
    /\ \E i, j \in DOMAIN file :
          /\ i < j
          /\ file[i][1] = "aborting"
          /\ file[j][1] = "release:"

IsFullRelease(l) ==
    \E p \in Pkgs, v \in VersionStrings, w \in WheelFiles : l = release_line(p, v, w)

\* C10: replay never fails on a malformed line: a line that is no full
\* release record, a truncated "release:" line included, is skipped, and the
\* repository is the one built from the well-formed release lines in order.
C10_ReplaySkipsMalformed ==
    /\ log_state \in {"unloaded", "loaded"}
    /\ (log_state = "loaded" /\ lastCall.op = "__init__") =>
          latest_pkg = _read_entries(SelectSeq(file, IsFullRelease)).repo

(***************************************************************************)
(* Claims about task_deploy.                                               *)
(***************************************************************************)
HostOf(v) == all_vpys[v].hostname

\* an install record of the release log naming virtualenv v
IsInstallEntry(l, v) ==
    Len(l) >= 8 /\ l[1] = "install:" /\ SubSeq(l, 3, 5) = unicode(all_vpys[v])

\* an error or aborting record of the release log naming virtualenv v
IsMessageEntry(l, tag, v) ==
    Len(l) >= 6 /\ l[1] = tag /\ l[2] = ":" /\ SubSeq(l, 4, 6) = unicode(all_vpys[v])

Position(v) == CHOOSE i \in DOMAIN vpys : vpys[i] = v

Ran(v, names) == \E k \in DOMAIN cmds : cmds[k].vpy = v /\ cmds[k].cmd \in names

\* C1: whenever the install command fails for a wheel of virtualenv B, the
\* first or a later one, an aborting record naming B is in the release log
\* when the run has ended, no install record exists for a virtualenv after B
\* and the install records of the virtualenvs before B are still there.
C1_InstallFailureAborts ==
    \A k \in DOMAIN cmds :
        (cmds[k].cmd = "install" /\ ~cmds[k].ok) =>
            LET B == cmds[k].vpy
            IN  /\ \E l \in Range(file) : IsMessageEntry(l, "aborting", B)
                /\ \A v \in Range(vpys) :
                      Position(v) > Position(B) =>
                          ~\E l \in Range(file) : IsInstallEntry(l, v)
                /\ \A m \in 1..(k - 1) :
                      (cmds[m].cmd = "install" /\ cmds[m].ok /\ cmds[m].vpy # B) =>
                          \E l \in Range(file) :
                              IsInstallEntry(l, cmds[m].vpy) /\ l[8] = cmds[m].arg

AbortCondition ==
    \E k \in DOMAIN cmds : cmds[k].cmd \in {"mkdir", "put", "install"} /\ ~cmds[k].ok

\* C2: once the creation of the wheel directory, a transfer or an install
\* has failed, the run runs no further command (no planning, prompt,
\* transfer, install, migration or reload) and writes nothing more.
C2_NothingAfterAbort ==
    [][AbortCondition => (cmds' = cmds /\ file' = file /\ updated_vpys' = updated_vpys)]_vars

\* C2 witness: the run has ended on a failure at its second virtualenv with
\* a third one selected and a host waiting for its reload
C2_Witness ==
    /\ AbortCondition
    /\ pc = "aborted"
    /\ idx = 2
    /\ Len(vpys) = 3
    /\ vpys[1] \in updated_vpys

\* C3: a failed migration is not fatal: an error record naming the
\* virtualenv is written, the other projects with migrate set are migrated
\* and the other selected virtualenvs are processed.
C3_MigrationFailureNotFatal ==
    /\ \A k \in DOMAIN cmds :
          (cmds[k].cmd = "migrate" /\ ~cmds[k].ok) =>
              /\ \E l \in Range(file) : IsMessageEntry(l, "error", cmds[k].vpy)
              /\ pc # "crashed"
    /\ pc = "done" =>
          /\ \A v \in Range(vpys) : Ran(v, {"freeze"})
          /\ \A v \in updated_vpys :
                \A j \in DOMAIN all_vpys[v].projects :
                    all_vpys[v].projects[j].migrate =>
                        \E k \in DOMAIN cmds :
                            /\ cmds[k].cmd = "migrate"
                            /\ cmds[k].vpy = v
                            /\ cmds[k].arg = all_vpys[v].projects[j].settings_module

ReloadCount(host) ==
    Cardinality({k \in DOMAIN cmds : cmds[k].cmd = "reload" /\ cmds[k].arg = host})

\* C4: in a run that does not abort, a host with an updated virtualenv has
\* its reload command run exactly once if it is marked reload_once, and
\* exactly once per selected virtualenv of the host otherwise.
C4_ReloadCounts ==
    pc = "done" =>
        \A host \in Hosts :
            (\E v \in updated_vpys : HostOf(v) = host) =>
                ReloadCount(host) =
                    IF reload_once[host] THEN 1
                    ELSE Cardinality({v \in Range(vpys) : HostOf(v) = host})

\* C5: the reload command of a host is run only when every selected
\* virtualenv of the host has been processed (is Done or Skipped).
C5_ReloadAfterHostFinished ==
    \A k \in DOMAIN cmds :
        cmds[k].cmd = "reload" =>
            \A v \in Range(vpys) :
                HostOf(v) = cmds[k].arg =>
                    /\ \E m \in 1..(k - 1) : cmds[m].cmd = "freeze" /\ cmds[m].vpy = v
                    /\ \A m \in DOMAIN cmds :
                          (m > k /\ cmds[m].vpy = v) => cmds[m].cmd = "reload"

PlanOf(v) == get_pkgs_to_install(all_vpys[v], latest_pkg, get_py_version(all_vpys[v]))

\* the planner found packages missing, or nothing to install
SkippedAtPlanning(v) ==
    \E k \in DOMAIN cmds :
        /\ cmds[k].cmd = "freeze"
        /\ cmds[k].vpy = v
        /\ cmds[k].arg \in {"missing packages", "Nichts zu installieren."}

Declined(v) ==
    \E k \in DOMAIN cmds :
        cmds[k].cmd = "prompt" /\ cmds[k].vpy = v /\ cmds[k].arg \notin {"j", "y", "J", "Y"}

\* C6: a skipped virtualenv (packages missing, nothing to install, or the
\* update not confirmed) has no wheel directory made, no wheel transferred
\* or installed, no migration run and no install, error or aborting record
\* written; one skipped for its packages is not asked for confirmation; and
\* the run goes on to the next selected virtualenv.
C6_SkippedHasNoEffect ==
    /\ \A v \in Range(vpys) :
          /\ (SkippedAtPlanning(v) \/ Declined(v)) =>
                /\ ~Ran(v, {"mkdir", "put", "install", "migrate"})
                /\ \A l \in Range(file) :
                      /\ ~IsInstallEntry(l, v)
                      /\ ~IsMessageEntry(l, "error", v)
                      /\ ~IsMessageEntry(l, "aborting", v)
                /\ (pc \in {"aborted", "crashed"} => vpys[idx] # v)
          /\ SkippedAtPlanning(v) => ~Ran(v, {"prompt"})
    /\ pc = "done" => \A v \in Range(vpys) : Ran(v, {"freeze"})

\* C6 witness: one virtualenv was skipped for a missing package, one was
\* declined, and a later one is being updated
C6_Witness ==
    \E u, v, w \in Range(vpys) :
        /\ SkippedAtPlanning(u)
        /\ PlanOf(u).missing # <<>>
        /\ PlanOf(u).installables # <<>>
        /\ Declined(v)
        /\ Position(u) < Position(w)
        /\ Position(v) < Position(w)
        /\ Ran(w, {"mkdir"})

(***************************************************************************)
(* Claims about the wheel matcher and the planner.                         *)
(***************************************************************************)
\* the interpreter version a python tag names exactly, <<>> for the others
TagPython(tag) ==
    CASE tag = "cp27" -> <<2, 7>>
      [] tag = "cp38" -> <<3, 8>>
      [] tag = "cp39" -> <<3, 9>>
      [] tag = "cp310" -> <<3, 10>>
      [] OTHER -> <<>>

\* the major family a generic python tag names, 0 for the others
TagFamily(tag) ==
    CASE tag = "py2" -> 2
      [] tag = "py3" -> 3
      [] OTHER -> 0

\* the wheels of an entry carrying a tag for exactly the interpreter version
ExactWheels(entry, py) ==
    {entry.wheels[i][2] : i \in {j \in DOMAIN entry.wheels :
        \E tag \in Range(entry.wheels[j][1]) : TagPython(tag) = py}}

\* the wheels of an entry carrying the generic tag of the major family
FamilyWheels(entry, py) ==
    {entry.wheels[i][2] : i \in {j \in DOMAIN entry.wheels :
        \E tag \in Range(entry.wheels[j][1]) : TagFamily(tag) = py[1]}}

\* the three-tier policy: exact, else generic family, else None
PolicyHolds(entry, py, result) ==
    IF ExactWheels(entry, py) # {}
    THEN result # None /\ result[1] \in ExactWheels(entry, py)
    ELSE IF FamilyWheels(entry, py) # {}
    THEN result # None /\ result[1] \in FamilyWheels(entry, py)
    ELSE result = None

\* C11: get_wheel returns a wheel tagged for exactly (major, minor) when the
\* entry has one, even after a generic wheel in the list; otherwise a wheel
\* with the generic tag of the major family (py2 / py3); otherwise None,
\* for every wheel list and interpreter version.
C11_ThreeTierPolicy ==
    lastCall.op = "get_wheel" =>
        PolicyHolds(latest_pkg[lastCall.pkg], lastCall.py_versioninfo, lastCall.result)

\* the package names the planner considers on a virtualenv
Considered(v) == {RequirementName(v.requirements[i]) : i \in DOMAIN v.requirements}
                    \cup Range(v.site_packages)

\* the version `pip freeze` shows for a package, <<>> when it shows none
FrozenVersion(v, p) ==
    IF \E i \in DOMAIN v.freeze : v.freeze[i][1] = p
    THEN LooseVersion(v.freeze[CHOOSE i \in DOMAIN v.freeze : v.freeze[i][1] = p][3])
    ELSE <<>>

\* the wheel the matcher gives for a package on a virtualenv
Matched(v, p) ==
    IF p \in DOMAIN latest_pkg THEN get_wheel(latest_pkg[p], v.python_version) ELSE None

AheadPkgs(plan) == {plan.ahead[i].pkg : i \in DOMAIN plan.ahead}

\* C12: get_pkgs_to_install puts a considered package in `missing` iff the
\* repository has no entry for it or no wheel matches; its matched wheel in
\* `installables` iff a wheel matched and the package is not installed or
\* installed at an older version; in `ahead` iff a wheel matched and the
\* installed version is newer; a package installed at the repository's
\* version is in none of the lists, and no package is in two lists.
C12_Classification ==
    lastCall.op = "get_pkgs_to_install" =>
        LET v == lastCall.vpy
            plan == lastCall.result
        IN  \A p \in Considered(v) :
              LET wheel == Matched(v, p)
                  iv == FrozenVersion(v, p)
                  inMissing == p \in Range(plan.missing)
                  inInstall == wheel # None /\ wheel[1] \in Range(plan.installables)
                  inAhead == p \in AheadPkgs(plan)
              IN  /\ inMissing <=> (p \notin DOMAIN latest_pkg \/ wheel = None)
                  /\ inInstall <=> /\ wheel # None
                                   /\ \/ iv = <<>>
                                      \/ VersionLess(iv, latest_pkg[p].version)
                  /\ inAhead <=> /\ wheel # None
                                 /\ iv # <<>>
                                 /\ VersionLess(latest_pkg[p].version, iv)
                  /\ (wheel # None /\ iv # <<>> /\ iv = latest_pkg[p].version)
                        => ~inMissing /\ ~inInstall /\ ~inAhead
                  /\ ~(inMissing /\ inInstall) /\ ~(inMissing /\ inAhead)
                  /\ ~(inInstall /\ inAhead)

\* C12 witness: one plan with a package to install, a missing package and a
\* package installed ahead of the repository
C12_Witness ==
    /\ lastCall.op = "get_pkgs_to_install"
    /\ lastCall.result.installables # <<>>
    /\ lastCall.result.missing # <<>>
    /\ lastCall.result.ahead # <<>>

(***************************************************************************)
(* Claims about task_add_wheel.                                            *)
(***************************************************************************)
\* the release entries of the log that name the wheel
ReleaseCount(lines, wheel) ==
    Cardinality({i \in DOMAIN lines :
                    /\ Len(lines[i]) >= 7
                    /\ lines[i][1] = "release:"
                    /\ lines[i][7] = wheel})

\* how often the repository lists the wheel
CatalogCount(repo, wheel) ==
    Cardinality(UNION {{<<p, i>> : i \in {j \in DOMAIN repo[p].wheels :
                                              repo[p].wheels[j][2] = wheel}} :
                       p \in DOMAIN repo})

\* the loop of task_add_wheel takes the step on the path at its head
IntakeStep ==
    /\ task = "add_wheel"
    /\ pathnames # <<>>
    /\ lastCall'.op = "add_wheel_path"
    /\ pathnames' # pathnames

IntakeUnchanged ==
    /\ file' = file
    /\ wheels_dir' = wheels_dir
    /\ latest_pkg' = latest_pkg

\* the file name, package (as the repository names it) and version of the
\* wheel path at the head of pathnames
HeadWheel == Join(basename(Head(pathnames)))
HeadIsWheel ==
    /\ endswith(Head(pathnames), ".whl")
    /\ Len(Split(basename(Head(pathnames)), "-", 2)) = 3
HeadPkg == Join(replace(Split(basename(Head(pathnames)), "-", 2)[1], "_", "-"))
HeadVersion == LooseVersion(Join(Split(basename(Head(pathnames)), "-", 2)[2]))

C13_OnceEach ==
    \A w \in WheelFiles :
        /\ ReleaseCount(file, w) <= 1
        /\ ReleaseCount(file, w) = 1 <=> w \in wheels_dir
        /\ CatalogCount(latest_pkg, w) <= 1

C13_SecondOnlyWarns ==
    (IntakeStep /\ HeadWheel \in wheels_dir) =>
        /\ IntakeUnchanged
        /\ lastCall'.warn = "already exists, ignoring"

\* C13: task_add_wheel is idempotent: a wheel file handed to it twice (in
\* one call or in two) has exactly one release entry in the log and is
\* listed once in the repository; the second occurrence only warns and
\* changes neither the log, the wheel directory nor the repository.
C13_IntakeIdempotent == [](C13_OnceEach) /\ [][C13_SecondOnlyWarns]_vars

\* C13 witness: a wheel was handed in a second time and warned about; it
\* has one release entry and the repository lists it once
C13_Witness ==
    /\ lastCall.op = "add_wheel_path"
    /\ lastCall.warn = "already exists, ignoring"
    /\ ReleaseCount(file, Join(basename(lastCall.path))) = 1
    /\ CatalogCount(latest_pkg, Join(basename(lastCall.path))) = 1

\* C14: a wheel whose version is strictly lower than the version the
\* repository holds for its package (underscores of the file name read as
\* hyphens) is skipped: not copied, not released, repository unchanged.
C14_OlderWheelSkipped ==
    [][(/\ IntakeStep
        /\ HeadIsWheel
        /\ HeadPkg \in DOMAIN latest_pkg
        /\ VersionLess(HeadVersion, latest_pkg[HeadPkg].version)) => IntakeUnchanged]_vars

\* C15: a wheel not yet in the wheel directory, of the version the
\* repository holds for its package, is skipped when a wheel of the entry
\* carries its platform tags (no copy, no release entry, repository
\* unchanged), and is admitted and appended to the entry otherwise.
C15_EqualVersionByTags ==
    [][(/\ IntakeStep
        /\ HeadIsWheel
        /\ HeadWheel \notin wheels_dir
        /\ HeadPkg \in DOMAIN latest_pkg
        /\ HeadVersion = latest_pkg[HeadPkg].version)
       => IF \E i \in DOMAIN latest_pkg[HeadPkg].wheels :
                latest_pkg[HeadPkg].wheels[i][1] = get_platform_tags(HeadWheel)
          THEN IntakeUnchanged
          ELSE /\ HeadWheel \in wheels_dir'
               /\ Len(file') = Len(file) + 1
               /\ ReleaseCount(file', HeadWheel) = 1
               /\ WheelNames(latest_pkg'[HeadPkg])
                     = Append(WheelNames(latest_pkg[HeadPkg]), HeadWheel)]_vars

\* C20: each path of one call is judged on its own: a path that is skipped
\* (not a wheel file, already in the wheel directory, older than the
\* repository, equal version with the same tags) does not stop the batch,
\* the loop goes on with the paths after it.
C20_SkipDoesNotStopBatch ==
    [][(IntakeStep /\ lastCall'.warn # "") => pathnames' = Tail(pathnames)]_vars

(***************************************************************************)
(* Claims about the transfer and install steps of task_deploy.             *)
(***************************************************************************)
\* the wheels of the install records of virtualenv v, in file order
RECURSIVE InstallEntries(_, _)
InstallEntries(lines, v) ==
    IF lines = <<>> THEN <<>>
    ELSE (IF IsInstallEntry(Head(lines), v) THEN <<Head(lines)[8]>> ELSE <<>>)
         \o InstallEntries(Tail(lines), v)

\* the wheels the install command succeeded for on virtualenv v, in order
RECURSIVE Installed(_, _)
Installed(cs, v) ==
    IF cs = <<>> THEN <<>>
    ELSE (IF Head(cs).cmd = "install" /\ Head(cs).vpy = v /\ Head(cs).ok
          THEN <<Head(cs).arg>> ELSE <<>>)
         \o Installed(Tail(cs), v)

LastCmdFailed(names) ==
    cmds # <<>> /\ cmds[Len(cmds)].cmd \in names /\ ~cmds[Len(cmds)].ok

\* C16: a failure to make the wheel directory of a virtualenv or to
\* transfer a wheel is fatal: an aborting record naming the virtualenv is
\* appended to the release log, the install command is never run for the
\* wheel whose transfer failed (for no wheel when the directory could not
\* be made), no install record is written for it, and the run ends.
C16_StagingFailureFatal ==
    \A k \in DOMAIN cmds :
        (cmds[k].cmd \in {"mkdir", "put"} /\ ~cmds[k].ok) =>
            LET v == cmds[k].vpy
            IN  /\ k = Len(cmds)
                /\ pc = "aborted"
                /\ file # <<>>
                /\ IsMessageEntry(file[Len(file)], "aborting", v)
                /\ cmds[k].cmd = "mkdir" =>
                      /\ ~Ran(v, {"put", "install"})
                      /\ InstallEntries(file, v) = <<>>
                /\ cmds[k].cmd = "put" =>
                      /\ cmds[k].arg \notin Range(Installed(cmds, v))
                      /\ cmds[k].arg \notin Range(InstallEntries(file, v))

\* C16 witness: the transfer of the second wheel of the second virtualenv
\* failed and the run has ended
C16_Witness ==
    /\ LastCmdFailed({"put"})
    /\ pc = "aborted"
    /\ idx = 2
    /\ wi = 2

\* C17: an install record for (virtualenv, wheel) is written only after the
\* install command succeeded for that wheel there, and exactly one per
\* successful install: the install records of a virtualenv are the wheels
\* installed on it, in plan order, as many as its plan holds when it is done.
C17_OneEntryPerInstall ==
    \A v \in Range(vpys) : InstallEntries(file, v) = Installed(cmds, v)

\* C19 as stated: no install command is run on a virtualenv before every
\* wheel of its plan has been transferred, so that a failed transfer leaves
\* none of the wheels installed and no install record for the virtualenv.
C19_AllTransfersBeforeInstall ==
    \A k \in DOMAIN cmds :
        (cmds[k].cmd = "put" /\ ~cmds[k].ok) =>
            /\ Installed(cmds, cmds[k].vpy) = <<>>
            /\ InstallEntries(file, cmds[k].vpy) = <<>>

\* C19, amended: transfer and install alternate wheel by wheel.  On a
\* virtualenv that is not on localhost the install command of a wheel is run
\* directly after the successful transfer of that wheel, and the transfer of
\* the next wheel follows the install; a failed transfer of the i-th wheel
\* leaves the i-1 wheels before it installed, with their install records,
\* and no later wheel installed.
C19_TransferThenInstallPerWheel ==
    /\ \A k \in DOMAIN cmds :
          (cmds[k].cmd = "install" /\ HostOf(cmds[k].vpy) # "localhost") =>
              /\ k > 1
              /\ cmds[k - 1].cmd = "put"
              /\ cmds[k - 1].ok
              /\ cmds[k - 1].vpy = cmds[k].vpy
              /\ cmds[k - 1].arg = cmds[k].arg
    /\ (LastCmdFailed({"put"}) /\ pc = "aborted") =>
          /\ Installed(cmds, vpys[idx]) = SubSeq(to_install, 1, wi - 1)
          /\ InstallEntries(file, vpys[idx]) = SubSeq(to_install, 1, wi - 1)
          /\ to_install[wi] = cmds[Len(cmds)].arg

\* C19 witness: the transfer of the second wheel failed after the first
\* wheel was transferred, installed and recorded
C19_Witness ==
    /\ LastCmdFailed({"put"})
    /\ wi = 2
    /\ Installed(cmds, vpys[idx]) = <<to_install[1]>>
    /\ InstallEntries(file, vpys[idx]) = <<to_install[1]>>

(***************************************************************************)
(* Claims about every writer of the release log.                           *)
(***************************************************************************)
\* C18: the release log is append-only: every operation of ReleaseLog and
\* every step of task_deploy and task_add_wheel leaves the lines written
\* before unchanged and in their order (the old file is a prefix of the new
\* one), also when the run aborts.
C18_AppendOnly ==
    [][Len(file') >= Len(file) /\ SubSeq(file', 1, Len(file)) = file]_vars

\* C18 witness: a deployment has aborted after it recorded an install, the
\* release log holding the releases, the install and the aborting record
C18_Witness ==
    /\ task = "deploy"
    /\ pc = "aborted"
    /\ Len(file) >= Len(DeployLog) + 2
    /\ SubSeq(file, 1, Len(DeployLog)) = DeployLog
    /\ file[Len(file)][1] = "aborting"

(***************************************************************************)
(* Further claims about the planner and the wheel matcher.                 *)
(***************************************************************************)
NoDuplicates(s) == \A i, j \in DOMAIN s : s[i] = s[j] => i = j

\* C21: get_pkgs_to_install considers each package named by the
\* requirements or by site_packages exactly once: a package named in both
\* gives at most one wheel in `installables` and at most one entry in
\* `missing` or `ahead`, so that no wheel is installed twice.
C21_EachPackageOnce ==
    lastCall.op = "get_pkgs_to_install" =>
        /\ NoDuplicates(lastCall.result.installables)
        /\ NoDuplicates(lastCall.result.missing)
        /\ NoDuplicates(lastCall.result.ahead)

\* C22: a host none of whose selected virtualenvs was updated in the run
\* (all skipped for their packages or not confirmed) never has its reload
\* command run.
C22_NoReloadWithoutUpdate ==
    \A host \in Hosts :
        (~\E v \in updated_vpys : HostOf(v) = host) => ReloadCount(host) = 0

\* C22 witness: the run is done, a virtualenv on www1 was updated and www1
\* reloaded, and the selected virtualenv on localhost was skipped
C22_Witness ==
    /\ pc = "done"
    /\ ReloadCount("www1") > 0
    /\ ReloadCount("localhost") = 0
    /\ \E v \in Range(vpys) :
          /\ HostOf(v) = "localhost"
          /\ SkippedAtPlanning(v) \/ Declined(v)
    /\ ~\E v \in updated_vpys : HostOf(v) = "localhost"

\* the virtualenv with every requirement unpinned / pinned to a version
Unpinned(v) ==
    LET name(l) == <<RequirementName(l)>>
    IN  [v EXCEPT !.requirements = MapSeq(name, v.requirements)]

Pinned(v, version) ==
    LET pin(l) == <<RequirementName(l), EQ, version>>
    IN  [v EXCEPT !.requirements = MapSeq(pin, v.requirements)]

Replan(v) == get_pkgs_to_install(v, latest_pkg, get_py_version(v))

\* C23: the plan does not depend on the version a requirement is pinned
\* to: get_pkgs_to_install returns the same installables, missing and ahead
\* whether the required packages are unpinned or pinned to any version,
\* the wheels to install are those of the repository's latest version, and
\* a second run on the same virtualenv and repository returns the same plan.
C23_PinsIgnored ==
    lastCall.op = "get_pkgs_to_install" =>
        /\ lastCall.result = Replan(lastCall.vpy)
        /\ lastCall.result = Replan(Unpinned(lastCall.vpy))
        /\ \A version \in VersionStrings :
              lastCall.result = Replan(Pinned(lastCall.vpy, version))
        /\ \A w \in Range(lastCall.result.installables) :
              \E p \in DOMAIN latest_pkg : w \in Range(WheelNames(latest_pkg[p]))

\* C23 witness: package a is pinned to 1.0 and installed at 1.0, the
\* repository holds a at 2.0, and the plan installs the wheel of a 2.0
C23_Witness ==
    /\ lastCall.op = "get_pkgs_to_install"
    /\ lastCall.vpy.requirements[1] = <<"a", EQ, "1.0">>
    /\ lastCall.vpy.freeze = << <<"a", EQ, "1.0">> >>
    /\ "a" \in DOMAIN latest_pkg
    /\ latest_pkg["a"].version = LooseVersion("2.0")
    /\ WheelA20_py3 \in Range(lastCall.result.installables)

\* the tier of the entry the wheel belongs to for the interpreter version
TierOf(entry, py, wheel) ==
    IF wheel \in ExactWheels(entry, py) THEN ExactWheels(entry, py)
    ELSE FamilyWheels(entry, py)

\* C24: within one tier get_wheel returns the wheel recorded first in the
\* entry: the earliest released of the wheels with an exact tag, and
\* without an exact match the earliest released of the wheels with the
\* generic tag of the family.
C24_EarliestOfTier ==
    (lastCall.op = "get_wheel" /\ lastCall.result # None) =>
        LET entry == latest_pkg[lastCall.pkg]
            wheel == lastCall.result[1]
            tier == TierOf(entry, lastCall.py_versioninfo, wheel)
            first == Min({i \in DOMAIN entry.wheels : entry.wheels[i][2] = wheel})
        IN  /\ wheel \in tier
            /\ \A j \in 1..(first - 1) : entry.wheels[j][2] \notin tier

\* C24 witness: the entry holds two wheels with the exact tag of the
\* interpreter, and the one released first was returned
C24_Witness ==
    /\ lastCall.op = "get_wheel"
    /\ lastCall.result # None
    /\ LET entry == latest_pkg[lastCall.pkg]
       IN  \E i, j \in DOMAIN entry.wheels :
              /\ i < j
              /\ entry.wheels[i][2] = lastCall.result[1]
              /\ entry.wheels[j][2] # entry.wheels[i][2]
              /\ {entry.wheels[i][2], entry.wheels[j][2]}
                    \subseteq ExactWheels(entry, lastCall.py_versioninfo)

====
